---- MODULE Spec2Model ----
(***************************************************************************)
(* funkster-http: HTTP pipes (src/src/http.ts) and the host adapters       *)
(* (src/src/index.ts), as a state machine over exchanges.                  *)
(*                                                                         *)
(* A pipe is a tree of combinator nodes; Eval runs it the way the closures *)
(* of http.ts run, up to the one suspension point (body), where the        *)
(* exchange waits for the request stream.  Text is a sequence of tokens: a *)
(* token is "/", "?", a run of plain characters, or one percent escape.    *)
(***************************************************************************)
EXTENDS Integers, Sequences, FiniteSets, TLC

VARIABLES
  pc,        \* per exchange: "idle", "reading" (suspended in body), "waiting"
             \* (on a wrapped middleware), "done"
  adapter,   \* per exchange: the adapter the host called ("listener", "connect")
  pipe,      \* per exchange: the top-level pipe handed to the adapter
  req,       \* per exchange: the request (method, url, body chunks)
  ctx,       \* per exchange: the context's response sink and the calls made
  stream,    \* per exchange: the request stream: chunks read, and its state
  pending,   \* per exchange: the continuation waiting on the body
  result,    \* per exchange: the outcome of the top-level pipe
  host       \* per exchange: what the adapter handed to the host

vars == <<pc, adapter, pipe, req, ctx, stream, pending, result, host>>

(***************************************************************************)
(* Bounds                                                                  *)
(***************************************************************************)
MaxChunks == 2
\* The longest run of addHeader calls on one response.
MaxAdds == 2

Exchanges == {"e1", "e2"}

(***************************************************************************)
(* JavaScript values                                                       *)
(***************************************************************************)
\* An optional argument: absent (undefined) or present.
None == <<>>
Some(x) == <<x>>
IsSome(o) == o # <<>>
Get(o) == o[1]

\* Values a pipe can throw or reject with, and the null the adapter passes.
UNDEFINED == "undefined"
NULL == "null"
\* ToBoolean of a thrown value or callback argument.
Truthy(v) == v \notin {UNDEFINED, NULL}

\* string | Buffer: a tagged token sequence.
Str(d) == [t |-> "string", d |-> d]
Buf(d) == [t |-> "buffer", d |-> d]
\* ToBoolean of an optional string | Buffer argument: undefined and "" are
\* falsy, every Buffer (an object) is truthy.
TruthyData(o) == IsSome(o) /\ (Get(o).t = "buffer" \/ Get(o).d # <<>>)
\* String(buffer): the buffer's bytes read as utf8 text.
ToStr(b) == Str(b.d)

RECURSIVE Flatten(_)
\* Buffer.concat over the chunks read.
Flatten(chunks) ==
  IF chunks = <<>> THEN <<>> ELSE Head(chunks) \o Flatten(Tail(chunks))

(***************************************************************************)
(* URLs and percent-decoding                                               *)
(***************************************************************************)
\* The index of the first "?" of a url, or Len(url) + 1.
RECURSIVE QueryStart(_, _)
QueryStart(url, i) ==
  IF i > Len(url) THEN i
  ELSE IF url[i] = "?" THEN i ELSE QueryStart(url, i + 1)

\* parseurl(req): the raw pathname and query of req.url; nothing is decoded.
parseurl(r) ==
  LET q == QueryStart(r.url, 1)
  IN [pathname |-> SubSeq(r.url, 1, q - 1),
      query |-> SubSeq(r.url, q + 1, Len(r.url))]

\* The percent escapes of the model and what they decode to.
Escapes == {"%41", "%2F"}
Malformed == {"%zz"}
DecodeTok(t) ==
  CASE t = "%41" -> "A"
    [] t = "%2F" -> "/"
    [] OTHER -> t

\* decodeURIComponent throws URIError on a malformed escape.
DecodeThrows(s) == \E i \in 1..Len(s) : s[i] \in Malformed
decodeURIComponent(s) == [i \in 1..Len(s) |-> DecodeTok(s[i])]

(***************************************************************************)
(* path-to-regexp: the compiled expression of a path pattern               *)
(***************************************************************************)
\* A pattern token naming a placeholder, and the key it declares.  The
\* token ":grp(())" is a placeholder whose custom sub-pattern holds a
\* capturing group of its own: one key, two captured groups.
ParamToks == {":foo", ":bar", ":name", ":grp(())"}
NestedToks == {":grp(())"}
KeyName(t) ==
  CASE t = ":foo" -> "foo"
    [] t = ":bar" -> "bar"
    [] t = ":name" -> "name"
    [] t = ":grp(())" -> "grp"
    [] OTHER -> t

\* The expression is case-insensitive (sensitive: false).
LowerTok(t) == IF t = "ROUTE" THEN "route" ELSE t
LowerText(s) == [i \in 1..Len(s) |-> LowerTok(s[i])]

\* The text between the slashes of a path that starts with "/".
RECURSIVE SplitFrom(_, _, _, _)
SplitFrom(s, i, cur, acc) ==
  IF i > Len(s) THEN Append(acc, cur)
  ELSE IF s[i] = "/" THEN SplitFrom(s, i + 1, <<>>, Append(acc, cur))
  ELSE SplitFrom(s, i + 1, Append(cur, s[i]), acc)

Segments(s) ==
  IF s = <<>> \/ s[1] # "/" THEN << s >> ELSE SplitFrom(s, 2, <<>>, <<>>)

\* One optional trailing slash is ignored (strict: false).
StripTrailing(segs) ==
  IF segs # <<>> /\ segs[Len(segs)] = <<>>
  THEN SubSeq(segs, 1, Len(segs) - 1) ELSE segs

IsParamSeg(seg) == Len(seg) = 1 /\ seg[1] \in ParamToks

RECURSIVE KeysOf(_)
KeysOf(segs) ==
  IF segs = <<>> THEN <<>>
  ELSE (IF IsParamSeg(Head(segs)) THEN << KeyName(Head(segs)[1]) >> ELSE <<>>)
       \o KeysOf(Tail(segs))

\* pathToRegexp(path, keys): the expression, and the keys it pushes.
pathToRegexp(path) ==
  LET segs == StripTrailing(Segments(path))
  IN [segs |-> segs, keys |-> KeysOf(segs)]

SegMatches(pat, seg) ==
  IF IsParamSeg(pat) THEN seg # <<>>
  ELSE LowerText(seg) = LowerText(pat)

RECURSIVE GroupsOf(_, _)
GroupsOf(pats, segs) ==
  IF pats = <<>> THEN <<>>
  ELSE LET p == Head(pats)
           g == Head(segs)
       IN (CASE IsParamSeg(p) /\ p[1] \in NestedToks -> << g, << g[Len(g)] >> >>
             [] IsParamSeg(p) /\ p[1] \notin NestedToks -> << g >>
             [] OTHER -> <<>>)
          \o GroupsOf(Tail(pats), Tail(segs))

\* regex.exec(pathname): null (None), or the match array: the whole match,
\* then the captured groups.
RegexExec(regex, pathname) ==
  LET segs == StripTrailing(Segments(pathname))
      ok == /\ pathname # <<>> => pathname[1] = "/"
            /\ Len(segs) = Len(regex.segs)
            /\ \A i \in 1..Len(segs) : SegMatches(regex.segs[i], segs[i])
  IN IF ok THEN Some(<< pathname >> \o GroupsOf(regex.segs, segs)) ELSE None

\* A JavaScript object as its entries in insertion order; obj[key] = value.
RECURSIVE ObjSet(_, _, _)
ObjSet(obj, key, value) ==
  IF obj = <<>> THEN << <<key, value>> >>
  ELSE IF Head(obj)[1] = key THEN << <<key, value>> >> \o Tail(obj)
  ELSE << Head(obj) >> \o ObjSet(Tail(obj), key, value)

\* keyNames.reduce((accu, key, i) => { accu[key] = sanitizedMatches[i]; ... }, {})
RECURSIVE ReduceParams(_, _, _, _)
ReduceParams(keyNames, sanitizedMatches, i, accu) ==
  IF i > Len(keyNames) THEN accu
  ELSE ReduceParams(keyNames, sanitizedMatches, i + 1,
                    ObjSet(accu, keyNames[i], sanitizedMatches[i]))

\* JSON.stringify of an object of strings, as tokens.
RECURSIVE StringifyEntries(_)
StringifyEntries(obj) ==
  IF obj = <<>> THEN <<>>
  ELSE << Head(obj)[1], ":" >> \o Head(obj)[2]
       \o (IF Len(obj) > 1 THEN << "," >> ELSE <<>>)
       \o StringifyEntries(Tail(obj))
JSONstringify(obj) == Str(<< "{" >> \o StringifyEntries(obj) \o << "}" >>)

(***************************************************************************)
(* The response sink (node's ServerResponse)                               *)
(***************************************************************************)
\* A header value: a string, or an array of values.
JStr(x) == [t |-> "str", s |-> x, items |-> <<>>]
JArr(xs) == [t |-> "arr", s |-> "", items |-> xs]

\* One call on the response, by the pipe, the adapter or the host.
Event(ev, by) ==
  [ev |-> ev, by |-> by, code |-> 0, reason |-> None, key |-> "",
   value |-> JStr(""), data |-> None, enc |-> None]

NewResponse ==
  [log |-> <<>>, statusCode |-> 200, statusMessage |-> None,
   headers |-> <<>>, headersSent |-> FALSE, body |-> <<>>, ended |-> FALSE,
   destroyed |-> FALSE]

\* Header names are stored lower-cased.
LowerName(k) ==
  CASE k = "Location" -> "location"
    [] k = "WWW-Authenticate" -> "www-authenticate"
    [] k = "X" -> "x"
    [] OTHER -> k

\* res.writeHead(code, reason)
ResWriteHead(res, by, code, reason) ==
  [res EXCEPT !.log = Append(@, [Event("writeHead", by) EXCEPT
                                   !.code = code, !.reason = reason]),
              !.statusCode = code,
              !.statusMessage = reason,
              !.headersSent = TRUE]

\* res.write(data, encoding)
ResWrite(res, by, data, enc) ==
  [res EXCEPT !.log = Append(@, [Event("write", by) EXCEPT
                                   !.data = Some(data), !.enc = enc]),
              !.headersSent = TRUE,
              !.body = @ \o data.d]

\* res.setHeader(key, value); it throws once the head is sent.
ResSetHeaderThrows(res) == res.headersSent
ResSetHeader(res, by, key, value) ==
  [res EXCEPT !.log = Append(@, [Event("setHeader", by) EXCEPT
                                   !.key = key, !.value = value]),
              !.headers = ObjSet(@, LowerName(key), value)]

\* res.getHeader(key): undefined (None) when the header is not set.
ResGetHeader(res, key) ==
  LET hit == SelectSeq(res.headers, LAMBDA kv : kv[1] = LowerName(key))
  IN IF hit = <<>> THEN None ELSE Some(hit[1][2])
\* ToBoolean of what getHeader returned: undefined and "" are falsy, every
\* array is truthy.
TruthyHeader(o) == IsSome(o) /\ (Get(o).t = "arr" \/ Get(o).s # "")

\* res.end()
ResEnd(res, by) ==
  [res EXCEPT !.log = Append(@, Event("end", by)),
              !.headersSent = TRUE,
              !.ended = TRUE]

(***************************************************************************)
(* Pipes: funkster-core's always, never, compose and the combinators       *)
(***************************************************************************)
always == [op |-> "always"]
never == [op |-> "never"]
compose(a, b) == [op |-> "compose", a |-> a, b |-> b]

\* A pipe supplied by the caller: it records that it ran, then matches,
\* declines, throws synchronously or returns a rejected promise.
stub(id, behave, err) == [op |-> "stub", id |-> id, behave |-> behave, err |-> err]

\* A continuation supplied by the caller: it records its argument, then
\* returns a fixed pipe ("const"), Ok of its argument ("okArg"), or throws.
HConst(id, p) == [id |-> id, kind |-> "const", pipe |-> p, err |-> ""]
HOkArg(id) == [id |-> id, kind |-> "okArg", pipe |-> never, err |-> ""]
HThrow(id, err) == [id |-> id, kind |-> "throw", pipe |-> never, err |-> err]

\* setStatus's first argument: a number, or an HttpStatus {code, reason?}.
Num(code) == [isNumber |-> TRUE, code |-> code, reason |-> None]
HttpStatus(code, reason) == [isNumber |-> FALSE, code |-> code, reason |-> reason]

parsePath(path, paramHandler) ==
  LET regex == pathToRegexp(path)
  IN [op |-> "parsePath", regex |-> regex, keyNames |-> regex.keys,
      h |-> paramHandler]

\* pathScan, the earlier form of parsePath.
pathScan(urlPath, paramHandler) ==
  LET regex == pathToRegexp(urlPath)
  IN [op |-> "pathScan", regex |-> regex, keyNames |-> regex.keys,
      h |-> paramHandler]

ifPath(urlPath, handler) == [op |-> "ifPath", urlPath |-> urlPath, h |-> handler]

ifMethod(httpMethod, part) ==
  [op |-> "ifMethod", httpMethod |-> httpMethod, part |-> part]

body(handler) == [op |-> "body", h |-> handler]

GET(part) == ifMethod("GET", part)
POST(part) == ifMethod("POST", part)
HEAD(part) == ifMethod("HEAD", part)
PUT(part) == ifMethod("PUT", part)
DELETE(part) == ifMethod("DELETE", part)
TRACE(part) == ifMethod("TRACE", part)
OPTIONS(part) == ifMethod("OPTIONS", part)
CONNECT(part) == ifMethod("CONNECT", part)
PATCH(part) == ifMethod("PATCH", part)
OTHERVERB(name, part) == ifMethod(name, part)

\* A wrapped listener or middleware, by what it does when called: the steps
\* it takes before it returns (sync), each of them next(arg), throw arg or
\* res.end(), and the calls of next(arg) it leaves to happen later.
CallNext(arg) == [do |-> "next", arg |-> arg]
Throw(err) == [do |-> "throw", arg |-> Some(err)]
EndResponse == [do |-> "end", arg |-> None]
Wrapped(sync, later) == [sync |-> sync, later |-> later]

fromRequestListener(listener) == [op |-> "fromRequestListener", w |-> listener]
fromConnectMiddleware(middleWare) ==
  [op |-> "fromConnectMiddleware", w |-> middleWare]

setHeader(key, value) == [op |-> "setHeader", key |-> key, value |-> value]

addHeader(key, value) == [op |-> "addHeader", key |-> key, value |-> value]

setStatus(statusOrstatusCode, reason) ==
  [op |-> "setStatus", status |-> statusOrstatusCode, reason |-> reason]

writeBody(data, encoding) == [op |-> "writeBody", data |-> data, enc |-> encoding]

\* respond, had it written the body before the status line.
respond_BodyFirst(statusCode, data, encoding) ==
  compose(IF TruthyData(data) THEN writeBody(Get(data), encoding) ELSE always,
          setStatus(Num(statusCode), None))

respond(statusCode, data, encoding) ==
  compose(setStatus(Num(statusCode), None),
          IF TruthyData(data) THEN writeBody(Get(data), encoding) ELSE always)

Continue == setStatus(Num(100), None)
SwitchingProtocols == setStatus(Num(101), None)

Ok(data, encoding) == respond(200, data, encoding)
Created(data, encoding) == respond(201, data, encoding)
Accepted(data, encoding) == respond(202, data, encoding)
NoContent == setStatus(Num(204), None)

\* MovedPermanently, had it written the status line before the header.
MovedPermanently_StatusFirst(location) ==
  compose(setStatus(Num(301), None), setHeader("Location", JStr(location)))

MovedPermanently(location) ==
  compose(setHeader("Location", JStr(location)), setStatus(Num(301), None))
Found(location) ==
  compose(setHeader("Location", JStr(location)), setStatus(Num(302), None))
NotModified == setStatus(Num(304), None)

BadRequest(data, encoding) == respond(400, data, encoding)
Unauthorized(challenge, data, encoding) ==
  compose(setHeader("WWW-Authenticate", challenge), respond(401, data, encoding))

Forbidden(data, encoding) == respond(403, data, encoding)
\* NotFound, had it been given its neighbour's code.
NotFound_AsForbidden(data, encoding) == respond(403, data, encoding)
NotFound(data, encoding) == respond(404, data, encoding)
MethodNotAllowed(data, encoding) == respond(405, data, encoding)
NotAcceptable(data, encoding) == respond(406, data, encoding)
RequestTimeout == setStatus(Num(408), None)
Conflict(data, encoding) == respond(409, data, encoding)
Gone(data, encoding) == respond(410, data, encoding)
UnsupportedMediaType(data, encoding) == respond(415, data, encoding)
UnprocessableEntity(data, encoding) == respond(422, data, encoding)
PreconditionRequired(data, encoding) == respond(428, data, encoding)
TooManyRequests(data, encoding) == respond(429, data, encoding)

InternalServerError(data, encoding) == respond(500, data, encoding)
NotImplemented(data, encoding) == respond(501, data, encoding)
BadGateway(data, encoding) == respond(502, data, encoding)
ServiceUnavailable(data, encoding) == respond(503, data, encoding)
GatewayTimeout(data, encoding) == respond(504, data, encoding)
InvalidHttpVersion(data, encoding) == respond(505, data, encoding)

(***************************************************************************)
(* Running a pipe on a context                                             *)
(***************************************************************************)
\* What the calls made on one context left behind: the response sink, and
\* the caller-supplied pipes and continuations that ran, with their arguments.
NewTrace == [stubs |-> <<>>, thunks |-> <<>>, params |-> <<>>, bufs |-> <<>>]

\* createHttpContext(req, res): the request is passed beside it, unchanged.
createHttpContext == [res |-> NewResponse, tr |-> NewTrace, later |-> <<>>]

\* What a matcher's closure does when called: it returns a pipe or throws.
Ret(p, st) == [threw |-> FALSE, err |-> "", next |-> p, st |-> st]
Threw(err, st) == [threw |-> TRUE, err |-> err, next |-> never, st |-> st]

HandlerReturn(h, arg, st) ==
  CASE h.kind = "const" -> Ret(h.pipe, st)
    [] h.kind = "okArg" -> Ret(Ok(arg, None), st)
    [] OTHER -> Threw(h.err, st)

\* handler()
CallThunk(h, st) ==
  HandlerReturn(h, None, [st EXCEPT !.tr.thunks = Append(@, h.id)])

\* paramHandler(params), for a handler that answers JSON.stringify(params)
CallParamHandler(h, params, st) ==
  HandlerReturn(h, Some(JSONstringify(params)),
                [st EXCEPT !.tr.params = Append(@, params)])

\* handler(buffer), for a handler that answers String(buffer)
CallBodyHandler(h, buffer, st) ==
  HandlerReturn(h, Some(ToStr(buffer)),
                [st EXCEPT !.tr.bufs = Append(@, buffer)])

\* ifPath, had it compared the percent-decoded pathname with urlPath.
ifPathStep_Decoded(p, r, st) ==
  LET url == parseurl(r)
  IN IF DecodeThrows(url.pathname) THEN Threw("URIError", st)
     ELSE IF decodeURIComponent(url.pathname) = p.urlPath THEN CallThunk(p.h, st)
     ELSE Ret(never, st)

\* parseUrl(url => url.pathname === urlPath ? handler() : never)
ifPathStep(p, r, st) ==
  LET url == parseurl(r)
  IN IF url.pathname = p.urlPath THEN CallThunk(p.h, st) ELSE Ret(never, st)

\* ifMethod, had it compared the verbs without regard to case.
ifMethodStep_IgnoreCase(p, r, st) ==
  Ret(IF r.method = p.httpMethod \/ (r.method = "get" /\ p.httpMethod = "GET")
      THEN p.part ELSE never, st)

\* method(verb => verb === httpMethod ? part : never)
ifMethodStep(p, r, st) ==
  Ret(IF r.method = p.httpMethod THEN p.part ELSE never, st)

\* parsePath, had it handed the captured groups on without decoding them.
parsePathStep_Undecoded(p, r, st) ==
  LET url == parseurl(r)
      matches == RegexExec(p.regex, url.pathname)
  IN IF ~IsSome(matches) \/ Len(Get(matches)) < 1 THEN Ret(never, st)
     ELSE LET sanitizedMatches == Tail(Get(matches))
          IN IF Len(sanitizedMatches) = Len(p.keyNames)
             THEN CallParamHandler(
                    p.h, ReduceParams(p.keyNames, sanitizedMatches, 1, <<>>), st)
             ELSE Ret(never, st)

\* parsePath, had it accepted more captured groups than declared names.
parsePathStep_AtLeastArity(p, r, st) ==
  LET url == parseurl(r)
      matches == RegexExec(p.regex, url.pathname)
  IN IF ~IsSome(matches) \/ Len(Get(matches)) < 1 THEN Ret(never, st)
     ELSE LET groups == Tail(Get(matches))
          IN IF \E i \in 1..Len(groups) : DecodeThrows(groups[i])
             THEN Threw("URIError", st)
             ELSE LET sanitizedMatches ==
                        [i \in 1..Len(groups) |-> decodeURIComponent(groups[i])]
                  IN IF Len(sanitizedMatches) >= Len(p.keyNames)
                     THEN CallParamHandler(
                            p.h, ReduceParams(p.keyNames, sanitizedMatches, 1, <<>>), st)
                     ELSE Ret(never, st)

\* The closure parsePath hands to parseUrl.
parsePathStep(p, r, st) ==
  LET url == parseurl(r)
      matches == RegexExec(p.regex, url.pathname)
  IN IF ~IsSome(matches) \/ Len(Get(matches)) < 1 THEN Ret(never, st)
     ELSE LET groups == Tail(Get(matches))
          IN IF \E i \in 1..Len(groups) : DecodeThrows(groups[i])
             THEN Threw("URIError", st)
             ELSE LET sanitizedMatches ==
                        [i \in 1..Len(groups) |-> decodeURIComponent(groups[i])]
                  IN IF Len(sanitizedMatches) = Len(p.keyNames)
                     THEN CallParamHandler(
                            p.h, ReduceParams(p.keyNames, sanitizedMatches, 1, <<>>), st)
                     ELSE Ret(never, st)

\* The closure pathScan hands to request: matches.slice is called on
\* whatever exec returned, and on null that is a TypeError.
pathScanStep(p, r, st) ==
  LET urlObj == parseurl(r)
      matches == RegexExec(p.regex, urlObj.pathname)
  IN IF ~IsSome(matches) THEN Threw("TypeError", st)
     ELSE LET groups == Tail(Get(matches))
          IN IF \E i \in 1..Len(groups) : DecodeThrows(groups[i])
             THEN Threw("URIError", st)
             ELSE LET sanitizedMatches ==
                        [i \in 1..Len(groups) |-> decodeURIComponent(groups[i])]
                  IN IF Len(sanitizedMatches) = Len(p.keyNames)
                     THEN CallParamHandler(
                            p.h, ReduceParams(p.keyNames, sanitizedMatches, 1, <<>>), st)
                     ELSE Ret(never, st)

\* a || b on optional strings: undefined and "" are falsy.
OrElse(a, b) == IF IsSome(a) /\ Get(a) # "" THEN a ELSE b

\* setStatus, had the separate reason taken precedence over the status' own.
setStatusStep_ReasonFirst(p, st) ==
  IF p.status.isNumber
  THEN Ret(always, [st EXCEPT !.res = ResWriteHead(@, "pipe", p.status.code, p.reason)])
  ELSE Ret(always, [st EXCEPT !.res = ResWriteHead(@, "pipe", p.status.code,
                                                   OrElse(p.reason, p.status.reason))])

\* The closure setStatus hands to response.
setStatusStep(p, st) ==
  IF p.status.isNumber
  THEN Ret(always, [st EXCEPT !.res = ResWriteHead(@, "pipe", p.status.code, p.reason)])
  ELSE Ret(always, [st EXCEPT !.res = ResWriteHead(@, "pipe", p.status.code,
                                                   OrElse(p.status.reason, p.reason))])

\* The closure setHeader hands to response.
setHeaderStep(p, st) ==
  IF ResSetHeaderThrows(st.res) THEN Threw("Error", st)
  ELSE Ret(always, [st EXCEPT !.res = ResSetHeader(@, "pipe", p.key, p.value)])

\* The closure addHeader hands to response.
addHeaderStep(p, st) ==
  LET current == ResGetHeader(st.res, p.key)
      conc == IF p.value.t = "arr"
              THEN JArr(<< Get(current) >> \o p.value.items)
              ELSE JArr(<< Get(current), p.value >>)
  IN IF ResSetHeaderThrows(st.res) THEN Threw("Error", st)
     ELSE IF TruthyHeader(current)
     THEN Ret(always, [st EXCEPT !.res = ResSetHeader(@, "pipe", p.key, conc)])
     ELSE Ret(always, [st EXCEPT !.res = ResSetHeader(@, "pipe", p.key, p.value)])

\* The closure writeBody hands to response.
writeBodyStep(p, st) ==
  Ret(always, [st EXCEPT !.res = ResWrite(@, "pipe", p.data, p.enc)])

\* The outcome of a pipe: Matched(ctx), NotMatched, a failure (thrown or
\* rejected), or suspended in body with the rest of the composition in k.
NoHandler == HThrow("", "")
Matched(st) ==
  [kind |-> "Matched", st |-> st, err |-> "", how |-> "", k |-> <<>>, h |-> NoHandler]
NotMatched(st) ==
  [kind |-> "NotMatched", st |-> st, err |-> "", how |-> "", k |-> <<>>, h |-> NoHandler]
Failed(st, err, how) ==
  [kind |-> "Failed", st |-> st, err |-> err, how |-> how, k |-> <<>>, h |-> NoHandler]
Suspended(st, k, h) ==
  [kind |-> "Suspended", st |-> st, err |-> "", how |-> "", k |-> k, h |-> h]
\* The pipe waits on the promise of fromConnectMiddleware, with k behind it.
Waiting(st, k) ==
  [kind |-> "Waiting", st |-> st, err |-> "", how |-> "", k |-> k, h |-> NoHandler]

\* The promise a wrapper returns; resolve and reject act on a pending one only.
PromisePending == [state |-> "pending", err |-> ""]
PromiseResolved == [state |-> "resolved", err |-> ""]
PromiseRejected(err) == [state |-> "rejected", err |-> err]
SettleOnce(promise, to) == IF promise.state = "pending" THEN to ELSE promise

\* The callback of fromConnectMiddleware, had it resolved whatever it is given.
nextCallback_AlwaysResolves(arg) == PromiseResolved

\* (err) => { if (err) return reject(err); return resolve(ctx); }
nextCallback(arg) ==
  IF IsSome(arg) /\ Truthy(Get(arg)) THEN PromiseRejected(Get(arg))
  ELSE PromiseResolved

\* The wrapped handler runs until it returns or throws.
RECURSIVE RunWrapped(_, _, _)
RunWrapped(steps, st, promise) ==
  IF steps = <<>> THEN [st |-> st, promise |-> promise, threw |-> FALSE]
  ELSE LET step == Head(steps)
       IN CASE step.do = "end" ->
                 RunWrapped(Tail(steps), [st EXCEPT !.res = ResEnd(@, "wrapped")],
                            promise)
            [] step.do = "next" ->
                 RunWrapped(Tail(steps), st, SettleOnce(promise, nextCallback(step.arg)))
            [] OTHER ->
                 [st |-> st, threw |-> TRUE,
                  promise |-> SettleOnce(promise, PromiseRejected(Get(step.arg)))]

\* The executor of fromRequestListener: listener(ctx.req, ctx.res); resolve(ctx).
fromRequestListenerRun(p, st) ==
  LET ran == RunWrapped(p.w.sync, st, PromisePending)
  IN [st |-> ran.st, promise |-> SettleOnce(ran.promise, PromiseResolved)]

\* The executor of fromConnectMiddleware: middleWare(ctx.req, ctx.res, next);
\* the calls of next the middleware has put off stay with the exchange.
fromConnectMiddlewareRun(p, st) ==
  LET ran == RunWrapped(p.w.sync, [st EXCEPT !.later = @ \o p.w.later],
                        PromisePending)
  IN [st |-> ran.st, promise |-> ran.promise]

RECURSIVE Eval(_, _, _, _)
\* part(ctx), followed by the pipes k that compose has queued behind it.
Eval(p, k, r, st) ==
  LET StepOf(s) ==
        IF s.threw THEN Failed(s.st, s.err, "throw") ELSE Eval(s.next, k, r, s.st)
      Await(x) ==
        CASE x.promise.state = "resolved" -> Eval(always, k, r, x.st)
          [] x.promise.state = "rejected" -> Failed(x.st, x.promise.err, "reject")
          [] OTHER -> Waiting(x.st, k)
  IN CASE p.op = "always" ->
            IF k = <<>> THEN Matched(st) ELSE Eval(Head(k), Tail(k), r, st)
       [] p.op = "never" -> NotMatched(st)
       [] p.op = "compose" -> Eval(p.a, << p.b >> \o k, r, st)
       [] p.op = "stub" ->
            LET st1 == [st EXCEPT !.tr.stubs = Append(@, p.id)]
            IN CASE p.behave = "match" -> Eval(always, k, r, st1)
                 [] p.behave = "nomatch" -> NotMatched(st1)
                 [] p.behave = "throw" -> Failed(st1, p.err, "throw")
                 [] OTHER -> Failed(st1, p.err, "reject")
       [] p.op = "ifMethod" -> StepOf(ifMethodStep(p, r, st))
       [] p.op = "ifPath" -> StepOf(ifPathStep(p, r, st))
       [] p.op = "parsePath" -> StepOf(parsePathStep(p, r, st))
       [] p.op = "pathScan" -> StepOf(pathScanStep(p, r, st))
       [] p.op = "setStatus" -> StepOf(setStatusStep(p, st))
       [] p.op = "setHeader" -> StepOf(setHeaderStep(p, st))
       [] p.op = "addHeader" -> StepOf(addHeaderStep(p, st))
       [] p.op = "writeBody" -> StepOf(writeBodyStep(p, st))
       [] p.op = "body" -> Suspended(st, k, p.h)
       [] p.op = "fromRequestListener" -> Await(fromRequestListenerRun(p, st))
       [] p.op = "fromConnectMiddleware" -> Await(fromConnectMiddlewareRun(p, st))
       [] OTHER -> Failed(st, "TypeError", "throw")

\* body, had it called the handler with the first token read only.
bodyResume_FirstOnly(h, k, r, st, buffer) ==
  LET first == IF buffer.d = <<>> THEN <<>> ELSE << buffer.d[1] >>
      s == CallBodyHandler(h, Buf(first), st)
  IN IF s.threw THEN Failed(s.st, s.err, "reject") ELSE Eval(s.next, k, r, s.st)

\* body, once getRawBody has resolved with the buffer.
bodyResume(h, k, r, st, buffer) ==
  LET s == CallBodyHandler(h, buffer, st)
  IN IF s.threw THEN Failed(s.st, s.err, "reject") ELSE Eval(s.next, k, r, s.st)

\* body, had it swallowed the read failure as a non-match.
bodyReject_NotMatched(st, err) == NotMatched(st)

\* fromConnectMiddleware, once the middleware calls next(arg) while the pipe
\* still waits on the promise.
nextResume(arg, k, r, st) ==
  LET settled == nextCallback(arg)
  IN IF settled.state = "resolved" THEN Eval(always, k, r, st)
     ELSE Failed(st, settled.err, "reject")

\* body, once getRawBody has rejected: the await throws out of the async
\* function, past the handler and whatever compose queued.
bodyReject(st, err) == Failed(st, err, "reject")

(***************************************************************************)
(* The host adapters of index.ts                                           *)
(***************************************************************************)
\* What the adapter handed back to the host: the arguments of its calls of
\* finalhandler's done and of connect's next (None: next()).
NewHost == [done |-> <<>>, next |-> <<>>]

\* finalhandler's done(err): 404 without an error, 500 with one; a response
\* whose head is already sent is torn down instead.
finalhandlerDone(res, err) ==
  IF res.headersSent THEN [res EXCEPT !.destroyed = TRUE]
  ELSE [ResEnd(res, "host") EXCEPT
          !.statusCode = IF Truthy(err) THEN 500 ELSE 404]

\* run(req, res, part): an async function, so a throw of part is a rejection.
run(r, part) == Eval(part, <<>>, r, createHttpContext)

\* asRequestListener, had it handed a matched exchange to done as well.
asRequestListener_DoneOnMatched(out, hs) ==
  CASE out.kind \in {"Matched", "NotMatched"} ->
         [st |-> [out.st EXCEPT !.res = finalhandlerDone(@, NULL)],
          host |-> [hs EXCEPT !.done = Append(@, NULL)]]
    [] OTHER ->
         [st |-> [out.st EXCEPT !.res = finalhandlerDone(@, out.err)],
          host |-> [hs EXCEPT !.done = Append(@, out.err)]]

\* The listener of asRequestListener, from the point where run has settled.
asRequestListener(out, hs) ==
  CASE out.kind = "Matched" ->
         [st |-> [out.st EXCEPT !.res = ResEnd(@, "adapter")], host |-> hs]
    [] out.kind = "NotMatched" ->
         [st |-> [out.st EXCEPT !.res = finalhandlerDone(@, NULL)],
          host |-> [hs EXCEPT !.done = Append(@, NULL)]]
    [] OTHER ->
         [st |-> [out.st EXCEPT !.res = finalhandlerDone(@, out.err)],
          host |-> [hs EXCEPT !.done = Append(@, out.err)]]

\* asConnectMiddleware, had it called next whenever the pipe did not fail.
asConnectMiddleware_NextAlways(out, hs) ==
  CASE out.kind \in {"Matched", "NotMatched"} ->
         [st |-> out.st, host |-> [hs EXCEPT !.next = Append(@, None)]]
    [] OTHER ->
         [st |-> out.st, host |-> [hs EXCEPT !.next = Append(@, Some(out.err))]]

\* The middleware of asConnectMiddleware, from the point where run has settled.
asConnectMiddleware(out, hs) ==
  CASE out.kind = "Matched" -> [st |-> out.st, host |-> hs]
    [] out.kind = "NotMatched" ->
         [st |-> out.st, host |-> [hs EXCEPT !.next = Append(@, None)]]
    [] OTHER ->
         [st |-> out.st, host |-> [hs EXCEPT !.next = Append(@, Some(out.err))]]

Settle(a, out, hs) ==
  IF a = "listener" THEN asRequestListener(out, hs) ELSE asConnectMiddleware(out, hs)

(***************************************************************************)
(* The requests and pipes explored                                         *)
(***************************************************************************)
Adapters == {"listener", "connect"}

Methods == {"GET", "POST", "HEAD", "PUT", "DELETE", "TRACE", "OPTIONS",
            "CONNECT", "PATCH", "PURGE", "get"}

Root == << "/" >>
Urls ==
  { Root,
    << "/", "other" >>,
    << "/", "some", "/", "route" >>,
    << "/", "some" >>,
    << "/", "some", "%2F", "route" >>,
    << "/", "route", "/", "first", "/", "some", "/", "beer" >>,
    << "/", "route", "/", "first", "/", "some" >>,
    << "/", "route", "/", "some" >>,
    << "/", "route", "/", "some", "/" >>,
    << "/", "ROUTE", "/", "some" >>,
    << "/", "route", "/", "%41", "/", "some" >>,
    << "/", "route", "/", "%zz", "/", "some" >>,
    << "/", "A" >>,
    << "/", "%41" >>,
    << "/", "%zz" >>,
    << "/", "a", "%zz" >>,
    << "/", "?", "q" >>,
    << "/", "some", "/", "route", "?", "q" >> }

Patterns ==
  { << "/" >>,
    << "/", "route", "/", ":foo", "/", "some", "/", ":bar" >>,
    << "/", "route", "/", ":foo", "/", "some" >>,
    << "/", "route", "/", "some" >>,
    << "/", ":name" >>,
    << "/", ":grp(())" >>,
    << "/", "route", "/", ":grp(())", "/", ":foo" >> }

Literals == { Root, << "/", "some", "/", "route" >>, << "/", "A" >> }

\* The chunks the request stream can deliver, and the bodies sent.
Chunks == { << "pi" >>, << "ng" >> }
ChunkSeqs == UNION { [1..n -> Chunks] : n \in 0..MaxChunks }

\* Values a caller's pipe or continuation fails with.
ErrVals == { "Error", UNDEFINED }

HelloWorld == Str(<< "Hello World!" >>)

Stubs ==
  { stub("part", b, "") : b \in {"match", "nomatch"} }
  \cup { stub("part", b, err) : b \in {"throw", "reject"}, err \in ErrVals }

Parts == Stubs \cup { Ok(Some(Str(<< "x" >>)), None), Ok(None, None) }

Handlers ==
  { HConst("h", p) : p \in Parts } \cup { HOkArg("h") }
  \cup { HThrow("h", err) : err \in ErrVals }

Hello == GET(ifPath(Root, HConst("h", Ok(Some(HelloWorld), None))))
Echo == POST(body(HOkArg("h")))

MethodPipes ==
  { ifMethod(m, part) : m \in {"GET", "get", "PURGE"}, part \in Parts }
  \cup UNION { { GET(part), POST(part), HEAD(part), PUT(part), DELETE(part),
                 TRACE(part), OPTIONS(part), CONNECT(part), PATCH(part),
                 OTHERVERB("PURGE", part) } : part \in Parts }

PathPipes ==
  { ifPath(lit, h) : lit \in Literals, h \in Handlers }
  \cup { parsePath(pat, h) : pat \in Patterns, h \in Handlers }
  \cup { Hello }

BodyPipes ==
  { body(h) : h \in Handlers } \cup { Echo }
  \cup { compose(body(HOkArg("h")), stub("after", "match", "")) }

Reasons == { None, Some(""), Some("Custom"), Some("Other") }
Codes == { 200, 404 }
Datas == { None, Some(Str(<<>>)), Some(Str(<< "x" >>)), Some(Buf(<<>>)),
           Some(Buf(<< "x" >>)) }
Encodings == { None, Some("utf8") }

ResponsePipes ==
  { respond(c, d, enc) : c \in Codes, d \in Datas, enc \in Encodings }
  \cup { setStatus(Num(c), rs) : c \in Codes, rs \in Reasons }
  \cup { setStatus(HttpStatus(c, own), rs) : c \in Codes, own \in Reasons, rs \in Reasons }
  \cup { compose(setStatus(Num(200), None), setHeader("X", JStr("a"))) }
  \cup Stubs

\* Header values, and setHeader(X, a) (or nothing) followed by addHeader(X, v)
\* for each v of vs.
HeaderValues ==
  { JStr("b"), JStr("c"), JArr(<< JStr("c"), JStr("d") >>) }
PriorValues ==
  { None, Some(JStr("")), Some(JStr("a")), Some(JArr(<< JStr("a"), JStr("e") >>)) }
RECURSIVE AddAll(_, _)
AddAll(key, vs) ==
  IF vs = <<>> THEN always
  ELSE compose(addHeader(key, Head(vs)), AddAll(key, Tail(vs)))
HeaderChain(a, vs) ==
  IF IsSome(a) THEN compose(setHeader("X", Get(a)), AddAll("X", vs))
  ELSE AddAll("X", vs)
AddSeqs == UNION { [1..n -> HeaderValues] : n \in 1..MaxAdds }
HeaderPipes ==
  { HeaderChain(a, vs) : a \in PriorValues, vs \in AddSeqs }
  \cup { compose(setStatus(Num(200), None), addHeader("X", JStr("b"))) }

\* The status helpers, by exported name, each with the arguments explored.
Locations == { "/new", "/" }
Challenges == { JStr("Basic"), JArr(<< JStr("Basic"), JStr("Digest") >>) }
StatusDatas == { None, Some(Str(<< "x" >>)) }
StatusNames ==
  { "Continue", "SwitchingProtocols", "Ok", "Created", "Accepted", "NoContent",
    "MovedPermanently", "Found", "NotModified", "BadRequest", "Unauthorized",
    "Forbidden", "NotFound", "MethodNotAllowed", "NotAcceptable",
    "RequestTimeout", "Conflict", "Gone", "UnsupportedMediaType",
    "UnprocessableEntity", "PreconditionRequired", "TooManyRequests",
    "InternalServerError", "NotImplemented", "BadGateway",
    "ServiceUnavailable", "GatewayTimeout", "InvalidHttpVersion" }
Responder(name, d, enc) ==
  CASE name = "Ok" -> Ok(d, enc)
    [] name = "Created" -> Created(d, enc)
    [] name = "Accepted" -> Accepted(d, enc)
    [] name = "BadRequest" -> BadRequest(d, enc)
    [] name = "Forbidden" -> Forbidden(d, enc)
    [] name = "NotFound" -> NotFound(d, enc)
    [] name = "MethodNotAllowed" -> MethodNotAllowed(d, enc)
    [] name = "NotAcceptable" -> NotAcceptable(d, enc)
    [] name = "Conflict" -> Conflict(d, enc)
    [] name = "Gone" -> Gone(d, enc)
    [] name = "UnsupportedMediaType" -> UnsupportedMediaType(d, enc)
    [] name = "UnprocessableEntity" -> UnprocessableEntity(d, enc)
    [] name = "PreconditionRequired" -> PreconditionRequired(d, enc)
    [] name = "TooManyRequests" -> TooManyRequests(d, enc)
    [] name = "InternalServerError" -> InternalServerError(d, enc)
    [] name = "NotImplemented" -> NotImplemented(d, enc)
    [] name = "BadGateway" -> BadGateway(d, enc)
    [] name = "ServiceUnavailable" -> ServiceUnavailable(d, enc)
    [] name = "GatewayTimeout" -> GatewayTimeout(d, enc)
    [] OTHER -> InvalidHttpVersion(d, enc)
PipesOf(name) ==
  CASE name = "Continue" -> { Continue }
    [] name = "SwitchingProtocols" -> { SwitchingProtocols }
    [] name = "NoContent" -> { NoContent }
    [] name = "NotModified" -> { NotModified }
    [] name = "RequestTimeout" -> { RequestTimeout }
    [] name = "MovedPermanently" -> { MovedPermanently(l) : l \in Locations }
    [] name = "Found" -> { Found(l) : l \in Locations }
    [] name = "Unauthorized" ->
         { Unauthorized(ch, d, enc) :
             ch \in Challenges, d \in StatusDatas, enc \in Encodings }
    [] OTHER -> { Responder(name, d, enc) : d \in StatusDatas, enc \in Encodings }
StatusPipes == UNION { PipesOf(name) : name \in StatusNames }

\* Wrapped listeners and middlewares, by behaviour.
Listeners ==
  { Wrapped(sync, <<>>) :
      sync \in { <<>>, << EndResponse >>, << Throw("Error") >>,
                 << EndResponse, Throw("Error") >>, << Throw(UNDEFINED) >> } }
SyncSteps ==
  { <<>>, << EndResponse >>, << CallNext(None) >>, << CallNext(Some("Error")) >>,
    << CallNext(Some(UNDEFINED)) >>, << Throw("Error") >>,
    << EndResponse, CallNext(None) >>, << CallNext(None), Throw("Error") >>,
    << CallNext(Some("Error")), CallNext(None) >> }
LaterCalls ==
  { <<>>, << None >>, << Some("Error") >>, << None, Some("Error") >>,
    << Some("Error"), None >> }
Middlewares == { Wrapped(sync, later) : sync \in SyncSteps, later \in LaterCalls }
WrapperPipes ==
  { fromRequestListener(l) : l \in Listeners }
  \cup { fromConnectMiddleware(mw) : mw \in Middlewares }
  \cup { compose(fromConnectMiddleware(mw), stub("after", "match", "")) :
           mw \in Middlewares }

PathScanPipes == { pathScan(pat, HOkArg("h")) : pat \in Patterns }

Request(ms, us, cs) == [method : ms, url : us, chunks : cs]

\* One listener, asRequestListener(Echo), serving requests with a body.
BodyScenarios ==
  [a : {"listener"}, p : {Echo}, r : Request({"GET", "POST"}, {Root}, ChunkSeqs)]

WrapperScenarios ==
  [a : Adapters, p : WrapperPipes, r : Request({"GET"}, {Root}, {<<>>})]

Scenarios ==
  UNION {
    [a : Adapters, p : MethodPipes, r : Request(Methods, {Root}, {<<>>})],
    [a : Adapters, p : PathPipes, r : Request({"GET", "POST"}, Urls, {<<>>})],
    [a : Adapters, p : BodyPipes, r : Request({"GET", "POST"}, {Root}, ChunkSeqs)],
    [a : Adapters, p : ResponsePipes, r : Request({"GET"}, {Root}, {<<>>})],
    [a : Adapters, p : HeaderPipes, r : Request({"GET"}, {Root}, {<<>>})],
    [a : Adapters, p : StatusPipes, r : Request({"GET"}, {Root}, {<<>>})],
    [a : Adapters, p : PathScanPipes, r : Request({"GET"}, Urls, {<<>>})],
    WrapperScenarios }

(***************************************************************************)
(* The state machine                                                       *)
(***************************************************************************)
NoRequest == [method |-> "", url |-> <<>>, chunks |-> <<>>]
NoResult == [kind |-> "none", err |-> "", how |-> ""]
NoPending == [h |-> NoHandler, k |-> <<>>]
\* The request stream: the chunks read so far; "open", "ended" or "errored".
NewStream == [read |-> <<>>, state |-> "open"]

Init ==
  /\ pc = [e \in Exchanges |-> "idle"]
  /\ adapter = [e \in Exchanges |-> ""]
  /\ pipe = [e \in Exchanges |-> never]
  /\ req = [e \in Exchanges |-> NoRequest]
  /\ ctx = [e \in Exchanges |-> createHttpContext]
  /\ stream = [e \in Exchanges |-> NewStream]
  /\ pending = [e \in Exchanges |-> NoPending]
  /\ result = [e \in Exchanges |-> NoResult]
  /\ host = [e \in Exchanges |-> NewHost]

\* The pipe has settled with out: the adapter acts on it.
Finish(e, a, out) ==
  LET s == Settle(a, out, host[e])
  IN /\ pc' = [pc EXCEPT ![e] = "done"]
     /\ ctx' = [ctx EXCEPT ![e] = s.st]
     /\ host' = [host EXCEPT ![e] = s.host]
     /\ result' = [result EXCEPT ![e] = [kind |-> out.kind, err |-> out.err,
                                         how |-> out.how]]
     /\ pending' = [pending EXCEPT ![e] = NoPending]

\* The pipe is suspended in body, waits on a middleware, or has settled.
Proceed(e, a, out) ==
  IF out.kind \in {"Suspended", "Waiting"}
  THEN /\ pc' = [pc EXCEPT ![e] = IF out.kind = "Suspended" THEN "reading"
                                   ELSE "waiting"]
       /\ ctx' = [ctx EXCEPT ![e] = out.st]
       /\ pending' = [pending EXCEPT ![e] = [h |-> out.h, k |-> out.k]]
       /\ UNCHANGED <<host, result>>
  ELSE Finish(e, a, out)

\* The host calls the adapter's listener with a request and a fresh response,
\* for one of the scenarios S.
AcceptFrom(e, S) ==
  /\ pc[e] = "idle"
  /\ \E sc \in S :
       /\ adapter' = [adapter EXCEPT ![e] = sc.a]
       /\ pipe' = [pipe EXCEPT ![e] = sc.p]
       /\ req' = [req EXCEPT ![e] = sc.r]
       /\ Proceed(e, sc.a, run(sc.r, sc.p))
  /\ UNCHANGED stream

Accept(e) == AcceptFrom(e, Scenarios)

\* The listener, had it kept one context for every exchange it serves.
ContextOf_Shared(e) == ctx["e1"]

\* The context the suspended body of exchange e closed over: the one its own
\* call of the listener created.
ContextOf(e) == ctx[e]

\* raw-body reads the next chunk of the request stream.
StreamData(e) ==
  /\ pc[e] = "reading"
  /\ Len(stream[e].read) < Len(req[e].chunks)
  /\ stream' = [stream EXCEPT ![e].read = Append(@, req[e].chunks[Len(@) + 1])]
  /\ UNCHANGED <<pc, adapter, pipe, req, ctx, pending, result, host>>

\* The stream ends: getRawBody resolves with the chunks read, and body goes on.
StreamEnd(e) ==
  /\ pc[e] = "reading"
  /\ Len(stream[e].read) = Len(req[e].chunks)
  /\ stream' = [stream EXCEPT ![e].state = "ended"]
  /\ Proceed(e, adapter[e],
             bodyResume(pending[e].h, pending[e].k, req[e], ContextOf(e),
                        Buf(Flatten(stream[e].read))))
  /\ UNCHANGED <<adapter, pipe, req>>

\* The stream fails or is aborted: getRawBody rejects.
StreamError(e) ==
  /\ pc[e] = "reading"
  /\ stream' = [stream EXCEPT ![e].state = "errored"]
  /\ Finish(e, adapter[e], bodyReject(ContextOf(e), "ReadError"))
  /\ UNCHANGED <<adapter, pipe, req>>

\* The wrapped middleware makes a call of next it had put off: it settles
\* the promise the pipe waits on, or finds it settled already.
NextLater(e) ==
  /\ pc[e] \in {"waiting", "done"}
  /\ ctx[e].later # <<>>
  /\ LET arg == Head(ctx[e].later)
         st == [ctx[e] EXCEPT !.later = Tail(@)]
     IN IF pc[e] = "waiting"
        THEN Proceed(e, adapter[e], nextResume(arg, pending[e].k, req[e], st))
        ELSE /\ ctx' = [ctx EXCEPT ![e] = st]
             /\ UNCHANGED <<pc, pending, result, host>>
  /\ UNCHANGED <<adapter, pipe, req, stream>>

Single == {"e1"}

Next ==
  \E e \in Single :
    \/ Accept(e)
    \/ StreamData(e)
    \/ StreamEnd(e)
    \/ StreamError(e)
    \/ NextLater(e)

Spec == Init /\ [][Next]_vars

\* Two exchanges served by one listener, their steps interleaved.
AcceptBody(e) == AcceptFrom(e, BodyScenarios)
ConcNext ==
  \E e \in Exchanges :
    \/ AcceptBody(e)
    \/ StreamData(e)
    \/ StreamEnd(e)
    \/ StreamError(e)
ConcSpec == Init /\ [][ConcNext]_vars

\* Exchanges whose pipe wraps a listener or a middleware; the event loop
\* runs every callback that is ready.
AcceptWrapper(e) == AcceptFrom(e, WrapperScenarios)
LiveNext ==
  \E e \in Single :
    \/ AcceptWrapper(e)
    \/ NextLater(e)
LiveSpec == Init /\ [][LiveNext]_vars /\ WF_vars(LiveNext)

(***************************************************************************)
(* Properties                                                              *)
(***************************************************************************)
\* The calls the pipe itself made on the response of exchange e.
PipeEvents(e) == SelectSeq(ctx[e].res.log, LAMBDA ev : ev.by = "pipe")
\* How often the adapter itself ended the response of exchange e.
AdapterEnds(e) ==
  Len(SelectSeq(ctx[e].res.log, LAMBDA ev : ev.ev = "end" /\ ev.by = "adapter"))
\* The raw path of a url: its longest prefix that holds no "?".
RawPath(url) ==
  LET n == CHOOSE n \in 0..Len(url) :
             /\ \A i \in 1..n : url[i] # "?"
             /\ n = Len(url) \/ url[n + 1] = "?"
  IN SubSeq(url, 1, n)
\* Exchange e stands where a pipe whose outcome on the fresh context is out
\* leaves it: suspended on the body, or settled and handed to the host.
Settled(e, out) ==
  /\ pc[e] = "done"
  /\ result[e] = [kind |-> out.kind, err |-> out.err, how |-> out.how]
  /\ ctx[e] = Settle(adapter[e], out, NewHost).st
  /\ host[e] = Settle(adapter[e], out, NewHost).host
StandsAs(e, out) ==
  IF out.kind = "Suspended"
  THEN \/ /\ pc[e] = "reading"
          /\ ctx[e] = out.st
          /\ pending[e] = [h |-> out.h, k |-> out.k]
       \/ /\ stream[e].state = "errored"
          /\ Settled(e, Failed(out.st, "ReadError", "reject"))
       \/ /\ stream[e].state = "ended"
          /\ Settled(e, bodyResume(out.h, out.k, req[e], out.st,
                                   Buf(Flatten(req[e].chunks))))
  ELSE Settled(e, out)

\* C1: asRequestListener, one exchange: on Matched the adapter ends the
\* response exactly once and never calls the host fallback done; on NotMatched
\* it calls done(null) exactly once and does not end the response itself.
\* Before the pipe has settled it does neither.  GET / on
\* GET(ifPath("/", () => Ok("Hello World!"))) answers 200 with that body, and
\* GET /other gets the host's 404.
C1_ListenerEndsOrFallsBack ==
  \A e \in Exchanges :
    adapter[e] = "listener" =>
      /\ pc[e] # "done" => AdapterEnds(e) = 0 /\ host[e].done = <<>>
      /\ pc[e] = "done" /\ result[e].kind = "Matched" =>
           /\ AdapterEnds(e) = 1
           /\ host[e].done = <<>>
           /\ ctx[e].res.log[Len(ctx[e].res.log)] = Event("end", "adapter")
      /\ pc[e] = "done" /\ result[e].kind = "NotMatched" =>
           /\ host[e].done = << NULL >>
           /\ AdapterEnds(e) = 0
      /\ pc[e] = "done" /\ pipe[e] = Hello /\ req[e].method = "GET" =>
           IF RawPath(req[e].url) = Root
           THEN /\ result[e].kind = "Matched"
                /\ ctx[e].res.statusCode = 200
                /\ ctx[e].res.body = HelloWorld.d
                /\ ctx[e].res.ended
           ELSE /\ result[e].kind = "NotMatched"
                /\ ctx[e].res.statusCode = 404
                /\ ctx[e].res.body = <<>>
      /\ host[e].next = <<>>

C1_Witness ==
  \E e \in Exchanges :
    /\ pc[e] = "done" /\ adapter[e] = "listener" /\ pipe[e] = Hello
    /\ req[e].method = "GET" /\ req[e].url = Root
    /\ result[e].kind = "Matched"
    /\ AdapterEnds(e) = 1
    /\ ctx[e].res.statusCode = 200

\* C2: both inbound adapters: when the top-level pipe fails, by a rejected
\* promise or a synchronous throw, the error goes to the host's error path
\* with that error (done(error) / next(error)); the adapter never takes the
\* non-match path (a call of done or next that carries no error) and never
\* ends the response.
C2_FailureReachesErrorPath ==
  \A e \in Exchanges :
    pc[e] = "done" /\ result[e].kind = "Failed" =>
      /\ AdapterEnds(e) = 0
      /\ adapter[e] = "listener" =>
           /\ host[e].done = << result[e].err >>
           /\ Truthy(host[e].done[1])
      /\ adapter[e] = "connect" =>
           /\ host[e].next = << Some(result[e].err) >>
           /\ Truthy(result[e].err)

\* The match array of a parsePath pipe p on request r, and its groups.
MatchOf(p, r) == RegexExec(p.regex, RawPath(r.url))
GroupsIn(p, r) == Tail(Get(MatchOf(p, r)))
MatchesWithArity(p, r) ==
  IsSome(MatchOf(p, r)) /\ Len(GroupsIn(p, r)) = Len(p.keyNames)
SomeGroupMalformed(p, r) ==
  \E i \in 1..Len(GroupsIn(p, r)) : DecodeThrows(GroupsIn(p, r)[i])
\* The i-th declared name with the decoded i-th captured group, for every i.
ZipParams(p, r) ==
  [i \in 1..Len(p.keyNames) |->
     << p.keyNames[i], decodeURIComponent(GroupsIn(p, r)[i]) >>]
\* The outcome of the pipe that handler h returns for arg, run on context st.
HandlerOutcome(h, arg, r, st) ==
  LET s == HandlerReturn(h, arg, st)
  IN IF s.threw THEN Failed(s.st, s.err, "throw") ELSE Eval(s.next, <<>>, r, s.st)
\* The fresh context on which paramHandler was called once, with params.
CalledWithParams(params) ==
  [createHttpContext EXCEPT !.tr.params = << params >>]
ParsePathHandled(e) ==
  /\ ctx[e].tr.params = << ZipParams(pipe[e], req[e]) >>
  /\ StandsAs(e, HandlerOutcome(pipe[e].h,
                                Some(JSONstringify(ZipParams(pipe[e], req[e]))),
                                req[e],
                                CalledWithParams(ZipParams(pipe[e], req[e]))))

\* C3 as claimed: parsePath with n placeholders, on any path the compiled
\* expression matches with exactly n groups: the handler is called with the
\* i-th name mapped to the decoded i-th group, and the result is that of the
\* pipe the handler returns, on the same context.
C3_AnyMatchingPathIsHandled ==
  \A e \in Exchanges :
    pc[e] = "done" /\ pipe[e].op = "parsePath" /\ MatchesWithArity(pipe[e], req[e])
      => ParsePathHandled(e)

\* C3, amended: the same, for paths whose captured groups are all well-formed
\* percent-encodings; when a captured group is malformed the pipe fails with
\* URIError and the handler is not called.
C3_WellFormedMatchIsHandled ==
  \A e \in Exchanges :
    pc[e] = "done" /\ pipe[e].op = "parsePath" /\ MatchesWithArity(pipe[e], req[e])
      => IF SomeGroupMalformed(pipe[e], req[e])
         THEN /\ result[e] = [kind |-> "Failed", err |-> "URIError", how |-> "throw"]
              /\ ctx[e].tr = NewTrace
         ELSE ParsePathHandled(e)

C3_Witness ==
  \E e \in Exchanges :
    /\ pc[e] = "done"
    /\ pipe[e] = parsePath(<< "/", "route", "/", ":foo", "/", "some" >>, HOkArg("h"))
    /\ req[e].url = << "/", "route", "/", "%41", "/", "some" >>
    /\ ctx[e].tr.params = << << << "foo", << "A" >> >> >> >>
    /\ result[e].kind = "Matched"
    /\ ctx[e].res.body = << "{", "foo", ":", "A", "}" >>

\* C4 as claimed: parsePath, when the expression does not match the whole
\* path or the number of groups differs from the number of names: the pipe
\* yields NotMatched, the handler is never called, no Params mapping is built
\* and the response is left unchanged (the listener's host answers 404).
C4_NoMatchOrArityIsNotMatched ==
  \A e \in Exchanges :
    pc[e] = "done" /\ pipe[e].op = "parsePath" /\ ~MatchesWithArity(pipe[e], req[e])
      => /\ result[e].kind = "NotMatched"
         /\ ctx[e].tr = NewTrace
         /\ PipeEvents(e) = <<>>
         /\ adapter[e] = "listener" => ctx[e].res.statusCode = 404

\* C4, amended: the same, except that a path the expression matches with the
\* wrong number of groups, one of them a malformed percent-encoding, makes
\* the pipe fail with URIError; the handler is still never called and the
\* pipe leaves the response unchanged.
C4_NoMatchOrWellFormedArity ==
  \A e \in Exchanges :
    pc[e] = "done" /\ pipe[e].op = "parsePath" /\ ~MatchesWithArity(pipe[e], req[e])
      => /\ ctx[e].tr = NewTrace
         /\ PipeEvents(e) = <<>>
         /\ IF IsSome(MatchOf(pipe[e], req[e])) /\ SomeGroupMalformed(pipe[e], req[e])
            THEN result[e] = [kind |-> "Failed", err |-> "URIError", how |-> "throw"]
            ELSE /\ result[e].kind = "NotMatched"
                 /\ adapter[e] = "listener" => ctx[e].res.statusCode = 404

C4_Witness ==
  \E e \in Exchanges :
    /\ pc[e] = "done"
    /\ pipe[e] = parsePath(<< "/", ":grp(())" >>, HOkArg("h"))
    /\ req[e].url = << "/", "A" >>
    /\ IsSome(MatchOf(pipe[e], req[e]))
    /\ Len(GroupsIn(pipe[e], req[e])) = 2
    /\ result[e].kind = "NotMatched"
    /\ ctx[e].tr.params = <<>>

\* The pipe of exchange e left the response and the call record untouched.
PipeLeftUntouched(e) ==
  /\ ctx[e].tr = NewTrace
  /\ PipeEvents(e) = <<>>
  /\ ctx[e].res.headers = <<>>
  /\ ctx[e].res.body = <<>>
  /\ adapter[e] = "connect" => ctx[e].res = NewResponse

\* C5: ifMethod(m, part) and the verb helpers: when the request method equals
\* m exactly the exchange goes as part alone would have made it go; otherwise
\* the pipe yields NotMatched, part is never run, and the response is left
\* unchanged.  Each helper stands for its own verb.
C5_MethodGuardsPart ==
  /\ \A part \in Parts :
       /\ GET(part) = ifMethod("GET", part)
       /\ POST(part) = ifMethod("POST", part)
       /\ HEAD(part) = ifMethod("HEAD", part)
       /\ PUT(part) = ifMethod("PUT", part)
       /\ DELETE(part) = ifMethod("DELETE", part)
       /\ TRACE(part) = ifMethod("TRACE", part)
       /\ OPTIONS(part) = ifMethod("OPTIONS", part)
       /\ CONNECT(part) = ifMethod("CONNECT", part)
       /\ PATCH(part) = ifMethod("PATCH", part)
       /\ OTHERVERB("PURGE", part) = ifMethod("PURGE", part)
  /\ \A e \in Exchanges :
       pc[e] # "idle" /\ pipe[e].op = "ifMethod" =>
         IF req[e].method = pipe[e].httpMethod
         THEN StandsAs(e, Eval(pipe[e].part, <<>>, req[e], createHttpContext))
         ELSE /\ pc[e] = "done"
              /\ result[e].kind = "NotMatched"
              /\ PipeLeftUntouched(e)

C5_Witness ==
  \E e \in Exchanges :
    /\ pc[e] = "done"
    /\ pipe[e] = GET(stub("part", "match", ""))
    /\ req[e].method = "get"
    /\ result[e].kind = "NotMatched"
    /\ ctx[e].tr.stubs = <<>>

\* The outcome of the pipe that ifPath's handler returns, on a fresh context.
ThunkOutcome(e) ==
  HandlerOutcome(pipe[e].h, None, req[e],
                 [createHttpContext EXCEPT !.tr.thunks = << pipe[e].h.id >>])
IfPathHandledIff(e, matches) ==
  IF matches
  THEN StandsAs(e, ThunkOutcome(e))
  ELSE /\ result[e].kind = "NotMatched"
       /\ PipeLeftUntouched(e)

\* C6 as claimed: ifPath(literal, handler) yields the result of handler's
\* pipe exactly when the percent-decoded path of the request URL equals
\* literal, and NotMatched, without calling handler, otherwise.
C6_DecodedPathEqualsLiteral ==
  \A e \in Exchanges :
    pc[e] = "done" /\ pipe[e].op = "ifPath" /\ ~DecodeThrows(RawPath(req[e].url))
      => IfPathHandledIff(e, decodeURIComponent(RawPath(req[e].url)) = pipe[e].urlPath)

\* C6, amended: ifPath(literal, handler) yields the result of handler's pipe
\* exactly when the raw path of the request URL, as sent and not decoded,
\* equals literal; a path that differs from literal by percent-encoding only
\* does not match.
C6_RawPathEqualsLiteral ==
  \A e \in Exchanges :
    pc[e] = "done" /\ pipe[e].op = "ifPath"
      => IfPathHandledIff(e, RawPath(req[e].url) = pipe[e].urlPath)

C6_Witness ==
  \E e \in Exchanges :
    /\ pc[e] = "done"
    /\ pipe[e] = ifPath(<< "/", "some", "/", "route" >>, HOkArg("h"))
    /\ req[e].url = << "/", "some", "/", "route", "?", "q" >>
    /\ result[e].kind = "Matched"
    /\ ctx[e].tr.thunks = << "h" >>

\* The whole body of the request of exchange e, as one buffer.
WholeBody(e) == Buf(Flatten(req[e].chunks))
\* The outcome of the pipe that body's handler returns for the whole body.
BodyOutcome(e) ==
  LET s == HandlerReturn(pipe[e].h, Some(ToStr(WholeBody(e))),
                         [createHttpContext EXCEPT !.tr.bufs = << WholeBody(e) >>])
  IN IF s.threw THEN Failed(s.st, s.err, "reject")
     ELSE Eval(s.next, <<>>, req[e], s.st)

\* C7: body(handler): handler is called at most once, only after the whole
\* request stream has been read, with the one buffer that holds all of it;
\* the exchange then goes as the pipe handler returns makes it go.  A POST of
\* "ping" to POST(body(buf => Ok(String(buf)))) answers 200 with body "ping".
C7_BodyHandlerGetsWholeBuffer ==
  \A e \in Exchanges :
    /\ Len(ctx[e].tr.bufs) <= 1
    /\ pc[e] = "reading" => ctx[e].tr.bufs = <<>>
    /\ ctx[e].tr.bufs # <<>> =>
         /\ stream[e].state = "ended"
         /\ stream[e].read = req[e].chunks
         /\ ctx[e].tr.bufs = << WholeBody(e) >>
    /\ pipe[e].op = "body" /\ stream[e].state = "ended" =>
         /\ ctx[e].tr.bufs = << WholeBody(e) >>
         /\ Settled(e, BodyOutcome(e))
    /\ /\ pipe[e] = Echo /\ req[e].method = "POST" /\ stream[e].state = "ended"
       /\ req[e].chunks = << << "pi" >>, << "ng" >> >>
       => /\ result[e].kind = "Matched"
          /\ ctx[e].res.statusCode = 200
          /\ ctx[e].res.body = << "pi", "ng" >>
          /\ adapter[e] = "listener" => ctx[e].res.ended

C7_Witness ==
  \E e \in Exchanges :
    /\ pc[e] = "done" /\ pipe[e] = Echo /\ req[e].method = "POST"
    /\ req[e].chunks = << << "pi" >>, << "ng" >> >>
    /\ stream[e].state = "ended"
    /\ ctx[e].tr.bufs = << Buf(<< "pi", "ng" >>) >>
    /\ ctx[e].res.body = << "pi", "ng" >>

\* C8: body(handler): when reading the request stream fails the pipe ends as
\* a rejection carrying the read error, never as NotMatched or Matched, and
\* handler is not called; the adapter hands the error to the host.
C8_ReadFailureRejects ==
  \A e \in Exchanges :
    stream[e].state = "errored" =>
      /\ pc[e] = "done"
      /\ result[e] = [kind |-> "Failed", err |-> "ReadError", how |-> "reject"]
      /\ ctx[e].tr.bufs = <<>>
      /\ PipeEvents(e) = <<>>
      /\ adapter[e] = "listener" => host[e].done = << "ReadError" >>
      /\ adapter[e] = "connect" => host[e].next = << Some("ReadError") >>

C8_Witness ==
  \E e \in Exchanges :
    /\ stream[e].state = "errored"
    /\ pipe[e] = Echo /\ req[e].method = "POST"
    /\ stream[e].read = << << "pi" >> >>
    /\ result[e].kind = "Failed"
    /\ ctx[e].tr.bufs = <<>>

WriteHeadEvent(code, reason) ==
  [Event("writeHead", "pipe") EXCEPT !.code = code, !.reason = reason]
WriteEvent(data, enc) ==
  [Event("write", "pipe") EXCEPT !.data = Some(data), !.enc = enc]
\* The text of an optional body argument.
TextOf(d) == IF IsSome(d) THEN Get(d).d ELSE <<>>

\* C9: respond(code, body, encoding) writes the status line with code first
\* and then the body, with the given encoding; when no body is supplied
\* nothing is written to the body stream; the result is Matched.  (An empty
\* string for a body leaves the body stream as empty as writing it would.)
C9_RespondStatusThenBody ==
  \A e \in Exchanges, c \in Codes, d \in Datas, enc \in Encodings :
    pc[e] = "done" /\ pipe[e] = respond(c, d, enc) =>
      /\ result[e].kind = "Matched"
      /\ PipeEvents(e)[1] = WriteHeadEvent(c, None)
      /\ ctx[e].res.statusCode = c
      /\ ctx[e].res.body = TextOf(d)
      /\ TextOf(d) # <<>> \/ (IsSome(d) /\ Get(d).t = "buffer") =>
           PipeEvents(e) = << WriteHeadEvent(c, None), WriteEvent(Get(d), enc) >>
      /\ ~IsSome(d) => PipeEvents(e) = << WriteHeadEvent(c, None) >>
      /\ Len(PipeEvents(e)) <= 2

C9_Witness ==
  \E e \in Exchanges :
    /\ pc[e] = "done"
    /\ pipe[e] = respond(404, Some(Str(<< "x" >>)), Some("utf8"))
    /\ result[e].kind = "Matched"
    /\ Len(PipeEvents(e)) = 2
    /\ PipeEvents(e)[2].ev = "write"
    /\ ctx[e].res.body = << "x" >>

\* The reason an HttpStatus carries, if it carries one.
CarriesReason(status) ==
  ~status.isNumber /\ IsSome(status.reason) /\ Get(status.reason) # ""

\* C10: a setStatus(codeOrStatus, reason) pipe writes the status line exactly
\* once, with the given code, and yields Matched; the reason written is the
\* HttpStatus' own when it carries one, whatever the separate reason, and the
\* separate reason otherwise.
C10_SetStatusOnceOwnReasonFirst ==
  \A e \in Exchanges :
    pc[e] = "done" /\ pipe[e].op = "setStatus" =>
      /\ result[e].kind = "Matched"
      /\ PipeEvents(e) =
           << WriteHeadEvent(pipe[e].status.code,
                             IF CarriesReason(pipe[e].status)
                             THEN pipe[e].status.reason ELSE pipe[e].reason) >>
      /\ ctx[e].res.statusCode = pipe[e].status.code

C10_Witness ==
  \E e \in Exchanges :
    /\ pc[e] = "done"
    /\ pipe[e] = setStatus(HttpStatus(404, Some("Custom")), Some("Other"))
    /\ result[e].kind = "Matched"
    /\ ctx[e].res.statusMessage = Some("Custom")
    /\ Len(PipeEvents(e)) = 1

\* The strings of a header value, in order: of a string itself, of an array
\* its entries.
FlatValues(v) == IF v.t = "arr" THEN v.items ELSE << v >>
RECURSIVE FlatAll(_)
FlatAll(vs) == IF vs = <<>> THEN <<>> ELSE FlatValues(Head(vs)) \o FlatAll(Tail(vs))
IsFlat(v) == v.t = "str" \/ \A i \in 1..Len(v.items) : v.items[i].t = "str"

\* C11: after setHeader(X, a) and then addHeader(X, v1) .. addHeader(X, vn),
\* n >= 1, header X holds one flat ordered sequence of strings: the prior
\* value(s), then the values of v1..vn in call order; when X is not set,
\* addHeader(X, v) leaves X holding exactly v.
C11_AddHeaderKeepsFlatOrder ==
  \A e \in Exchanges, a \in PriorValues \ {None, Some(JStr(""))}, vs \in AddSeqs :
    pc[e] = "done" /\ pipe[e] = HeaderChain(a, vs) =>
      /\ result[e].kind = "Matched"
      /\ ResGetHeader(ctx[e].res, "X") = Some(JArr(FlatValues(Get(a)) \o FlatAll(vs)))
      /\ IsFlat(Get(ResGetHeader(ctx[e].res, "X")))

SetHeaderEvent(key, value) ==
  [Event("setHeader", "pipe") EXCEPT !.key = key, !.value = value]
\* The pipe of exchange e set header key to value, then wrote the status
\* line with code, and set no header from then on.
HeaderThenStatus(e, key, value, code) ==
  LET evs == PipeEvents(e)
  IN /\ result[e].kind = "Matched"
     /\ Len(evs) >= 2
     /\ evs[1] = SetHeaderEvent(key, value)
     /\ evs[2] = WriteHeadEvent(code, None)
     /\ \A i \in 2..Len(evs) : evs[i].ev # "setHeader"
     /\ \A i \in 3..Len(evs) : evs[i].ev = "write"
     /\ ResGetHeader(ctx[e].res, key) = Some(value)

\* C12: every run of MovedPermanently(location) and Found(location) sets the
\* Location header to location before it writes the status line 301 / 302;
\* every run of Unauthorized(challenge, body) sets WWW-Authenticate to
\* challenge before the status line 401 and before any body; no header is
\* set after the status line.
C12_HeaderBeforeStatus ==
  \A e \in Exchanges :
    pc[e] = "done" =>
      /\ \A l \in Locations :
           /\ pipe[e] = MovedPermanently(l) =>
                HeaderThenStatus(e, "Location", JStr(l), 301)
           /\ pipe[e] = Found(l) => HeaderThenStatus(e, "Location", JStr(l), 302)
      /\ \A ch \in Challenges, d \in StatusDatas, enc \in Encodings :
           pipe[e] = Unauthorized(ch, d, enc) =>
             /\ HeaderThenStatus(e, "WWW-Authenticate", ch, 401)
             /\ ctx[e].res.body = TextOf(d)

C12_Witness ==
  \E e \in Exchanges :
    /\ pc[e] = "done"
    /\ pipe[e] = Unauthorized(JStr("Basic"), Some(Str(<< "x" >>)), None)
    /\ Len(PipeEvents(e)) = 3
    /\ PipeEvents(e)[1].ev = "setHeader"
    /\ PipeEvents(e)[2].ev = "writeHead"
    /\ PipeEvents(e)[3].ev = "write"
    /\ ctx[e].res.statusCode = 401

\* The canonical status table: each exported name with its code.
StatusTable ==
  { << "Continue", 100 >>, << "SwitchingProtocols", 101 >>, << "Ok", 200 >>,
    << "Created", 201 >>, << "Accepted", 202 >>, << "NoContent", 204 >>,
    << "MovedPermanently", 301 >>, << "Found", 302 >>, << "NotModified", 304 >>,
    << "BadRequest", 400 >>, << "Unauthorized", 401 >>, << "Forbidden", 403 >>,
    << "NotFound", 404 >>, << "MethodNotAllowed", 405 >>,
    << "NotAcceptable", 406 >>, << "RequestTimeout", 408 >>,
    << "Conflict", 409 >>, << "Gone", 410 >>, << "UnsupportedMediaType", 415 >>,
    << "UnprocessableEntity", 422 >>, << "PreconditionRequired", 428 >>,
    << "TooManyRequests", 429 >>, << "InternalServerError", 500 >>,
    << "NotImplemented", 501 >>, << "BadGateway", 502 >>,
    << "ServiceUnavailable", 503 >>, << "GatewayTimeout", 504 >>,
    << "InvalidHttpVersion", 505 >> }
StatusLines(e) == SelectSeq(PipeEvents(e), LAMBDA ev : ev.ev = "writeHead")

\* C16: for every name of the canonical status table, running the pipe the
\* name provides writes exactly the listed code as the response status, once,
\* and yields Matched.
C16_StatusTable ==
  /\ { row[1] : row \in StatusTable } = StatusNames
  /\ \A e \in Exchanges, row \in StatusTable :
       pc[e] = "done" /\ pipe[e] \in PipesOf(row[1]) =>
         /\ result[e].kind = "Matched"
         /\ Len(StatusLines(e)) = 1
         /\ StatusLines(e)[1].code = row[2]
         /\ ctx[e].res.statusCode = row[2]

C16_Witness ==
  \E e \in Exchanges :
    /\ pc[e] = "done"
    /\ pipe[e] \in PipesOf("UnprocessableEntity")
    /\ result[e].kind = "Matched"
    /\ ctx[e].res.statusCode = 422

\* C14: asConnectMiddleware(pipe), one exchange: next is called exactly once
\* with no argument when the pipe yields NotMatched, exactly once with the
\* error when the pipe fails, and not at all when the pipe yields Matched, or
\* while the pipe has not settled; done is never called.
C14_ConnectNextCalls ==
  \A e \in Exchanges :
    adapter[e] = "connect" =>
      /\ host[e].done = <<>>
      /\ pc[e] # "done" => host[e].next = <<>>
      /\ pc[e] = "done" /\ result[e].kind = "NotMatched" => host[e].next = << None >>
      /\ pc[e] = "done" /\ result[e].kind = "Failed" =>
           host[e].next = << Some(result[e].err) >>
      /\ pc[e] = "done" /\ result[e].kind = "Matched" => host[e].next = <<>>

C14_Witness ==
  \E e \in Exchanges :
    /\ pc[e] = "done" /\ adapter[e] = "connect"
    /\ pipe[e] = ifPath(<< "/", "some", "/", "route" >>, HOkArg("h"))
    /\ req[e].url = << "/", "some" >>
    /\ result[e].kind = "NotMatched"
    /\ host[e].next = << None >>

\* C15: every inbound adapter ends the response on Matched: asConnectMiddleware
\* as asRequestListener does.
C15_EveryAdapterEndsOnMatched ==
  \A e \in Exchanges :
    pc[e] = "done" /\ result[e].kind = "Matched" =>
      /\ ctx[e].res.ended
      /\ AdapterEnds(e) = 1

\* C19: pathScan(pattern, handler) hands handler the placeholder mapping when
\* the compiled pattern matches the request path (/route/:foo/some/:bar
\* against /route/first/some/beer gives foo = first, bar = beer), and for a
\* path the pattern does not match it yields NotMatched, not a failure,
\* without calling handler.
C19_PathScanMatchesOrNotMatched ==
  \A e \in Exchanges :
    pc[e] = "done" /\ pipe[e].op = "pathScan" =>
      /\ MatchesWithArity(pipe[e], req[e]) /\ ~SomeGroupMalformed(pipe[e], req[e])
           => ParsePathHandled(e)
      /\ /\ pipe[e].regex = pathToRegexp(<< "/", "route", "/", ":foo", "/", "some", "/", ":bar" >>)
         /\ req[e].url = << "/", "route", "/", "first", "/", "some", "/", "beer" >>
         => ctx[e].tr.params =
              << << << "foo", << "first" >> >>, << "bar", << "beer" >> >> >> >>
      /\ ~IsSome(MatchOf(pipe[e], req[e])) =>
           /\ result[e].kind = "NotMatched"
           /\ ctx[e].tr.params = <<>>

\* The wrapped handler of exchange e, when its pipe is a wrapper, alone or
\* with a pipe composed behind it.
IsWrapperOp(p) == p.op \in {"fromRequestListener", "fromConnectMiddleware"}
RunsWrapper(e) ==
  \/ IsWrapperOp(pipe[e])
  \/ pipe[e].op = "compose" /\ IsWrapperOp(pipe[e].a)
WrapperOf(e) == IF pipe[e].op = "compose" THEN pipe[e].a ELSE pipe[e]
\* What a step of the wrapped handler reports: an error, or normal completion.
ReportOk == [ok |-> TRUE, err |-> ""]
ReportErr(err) == [ok |-> FALSE, err |-> err]
ReportOfNext(arg) ==
  IF IsSome(arg) /\ Get(arg) \notin {UNDEFINED, NULL} THEN ReportErr(Get(arg))
  ELSE ReportOk
\* The steps the handler takes before it returns: those up to its first throw.
StepsTaken(sync) ==
  LET throws == { i \in 1..Len(sync) : sync[i].do = "throw" }
  IN IF throws = {} THEN sync
     ELSE SubSeq(sync, 1, CHOOSE i \in throws : \A j \in throws : i <= j)
Returns(sync) == \A i \in 1..Len(sync) : sync[i].do # "throw"
SyncReports(sync) ==
  LET told == SelectSeq(StepsTaken(sync), LAMBDA step : step.do # "end")
  IN [i \in 1..Len(told) |->
        IF told[i].do = "throw" THEN ReportErr(Get(told[i].arg))
        ELSE ReportOfNext(told[i].arg)]
\* Everything the wrapped handler of exchange e has reported so far, in order.
Reported(e) ==
  LET w == WrapperOf(e).w
      made == Len(w.later) - Len(ctx[e].later)
  IN IF WrapperOf(e).op = "fromRequestListener"
     THEN SyncReports(w.sync) \o (IF Returns(w.sync) THEN << ReportOk >> ELSE <<>>)
     ELSE SyncReports(w.sync) \o [i \in 1..made |-> ReportOfNext(w.later[i])]

\* C13: fromRequestListener(listener) and fromConnectMiddleware(mw): when the
\* wrapped handler completes normally (the listener returns, the middleware
\* calls next with no error) the pipe yields Matched on the context it was
\* given, and what is composed behind it runs on that context; when the
\* handler reports an error (it throws, the middleware calls next(err)) the
\* pipe fails with that error; it never yields NotMatched.  Of a handler that
\* reports more than once, the first report counts.
C13_WrappersMatchOrFail ==
  \A e \in Exchanges :
    pc[e] # "idle" /\ RunsWrapper(e) =>
      /\ result[e].kind # "NotMatched"
      /\ Reported(e) = <<>> => pc[e] = "waiting" /\ result[e] = NoResult
      /\ Reported(e) # <<>> =>
           /\ pc[e] = "done"
           /\ PipeEvents(e) = <<>>
           /\ IF Reported(e)[1].ok
              THEN /\ result[e].kind = "Matched"
                   /\ ctx[e].tr.stubs =
                        IF pipe[e].op = "compose" THEN << "after" >> ELSE <<>>
              ELSE /\ result[e] = [kind |-> "Failed", err |-> Reported(e)[1].err,
                                   how |-> "reject"]
                   /\ ctx[e].tr = NewTrace

C13_Witness ==
  \E e \in Exchanges :
    /\ pc[e] = "done"
    /\ pipe[e] = fromConnectMiddleware(Wrapped(<< EndResponse >>, << Some("Error"), None >>))
    /\ ctx[e].later = << None >>
    /\ result[e] = [kind |-> "Failed", err |-> "Error", how |-> "reject"]

\* C18: a pipe built with fromConnectMiddleware(mw) eventually produces an
\* outcome for every invocation in which mw returns normally, also when mw
\* handles the exchange itself and never calls next; and once the pipe has
\* produced its outcome, later calls of next by mw do not change it.
C18_MiddlewarePipeSettles ==
  /\ \A e \in Exchanges : (pc[e] = "waiting") ~> (pc[e] = "done")
  /\ [][\A e \in Exchanges :
          pc[e] = "done" => /\ pc'[e] = "done"
                            /\ result'[e] = result[e]
                            /\ host'[e] = host[e]
                            /\ ctx'[e].res = ctx[e].res]_vars

\* Everything the model holds of exchange e.
ExchangeState(e) ==
  << pc[e], adapter[e], pipe[e], req[e], ctx[e], stream[e], pending[e],
     result[e], host[e] >>
\* The next state of exchange e, whatever step is taken.
ExchangeStateNext(e) ==
  << pc'[e], adapter'[e], pipe'[e], req'[e], ctx'[e], stream'[e], pending'[e],
     result'[e], host'[e] >>
IsPrefix(a, b) == Len(a) <= Len(b) /\ a = SubSeq(b, 1, Len(a))

\* C17: two exchanges served concurrently by one listener built with
\* asRequestListener(pipe), their steps interleaved at the body suspension
\* point: each exchange stands where its own request alone, run on a fresh
\* context, puts it, whatever the other exchange has done; and every step
\* changes the state of one exchange only.
C17_ExchangesAreIndependent ==
  /\ [](\A e \in Exchanges :
          pc[e] # "idle" =>
            /\ StandsAs(e, Eval(pipe[e], <<>>, req[e], createHttpContext))
            /\ IsPrefix(stream[e].read, req[e].chunks)
            /\ pc[e] = "done" /\ result[e].kind = "Matched" =>
                 /\ ctx[e].res.body = Flatten(req[e].chunks)
                 /\ Len(ctx[e].res.log) <= 3)
  /\ [][\E e \in Exchanges :
          \A o \in Exchanges \ {e} : ExchangeStateNext(o) = ExchangeState(o)]_vars

C17_Witness ==
  /\ pc["e1"] = "done" /\ pc["e2"] = "reading"
  /\ req["e1"].method = "POST" /\ req["e2"].method = "POST"
  /\ req["e1"].chunks = << << "pi" >> >>
  /\ req["e2"].chunks = << << "ng" >>, << "ng" >> >>
  /\ stream["e2"].read = << << "ng" >> >>
  /\ result["e1"].kind = "Matched"
  /\ ctx["e1"].res.body = << "pi" >>
  /\ ctx["e2"].res.log = <<>>

====
